---- MODULE Spec2Model ----
(***************************************************************************)
(* The access gate of the OpenAI API service (src/backend): one configured *)
(* secret, a login operation that echoes the credential back as the token, *)
(* a guard in front of every protected operation, and the pass-through to  *)
(* the upstream provider behind the guard.                                 *)
(*                                                                         *)
(* A Python str is a finite sequence of one-character strings; an          *)
(* Optional[str] is None (the empty tuple) or Some(s) (the one-element     *)
(* tuple holding s), so that None and the empty string differ.             *)
(***************************************************************************)
EXTENDS Integers, Sequences, FiniteSets, TLC

VARIABLES ACCESS_KEY, OPENAI_API_KEY, client, req, last,
          denied, issued, uses, repeats, threads, provider

config == <<ACCESS_KEY, OPENAI_API_KEY, client>>
history == <<denied, issued, uses, repeats>>
vars == <<ACCESS_KEY, OPENAI_API_KEY, client, req, last,
          denied, issued, uses, repeats, threads, provider>>

(***************************************************************************)
(* Bounds of the model.                                                    *)
(***************************************************************************)
\* longest string drawn for a secret or a credential in SpecGate
MaxLen == 2
\* the history counters stop counting here
MaxCount == 2
\* evaluations of the guard that run at the same time in SpecConc
MaxThreads == 2
\* longest list of chat messages drawn in SpecForward
MaxMessages == 2
\* longest list of models the provider answers with in SpecModels
MaxModels == 2
\* longest text and largest max_length given to sanitize_string in SpecSanitize
MaxText == 3
MaxLimit == 3

Alphabet == {"a", "A", " "}

Strings(n) == UNION {[1..k -> Alphabet] : k \in 0..n}

None == <<>>

Some(s) == <<s>>

Value(o) == o[1]

Optional(S) == {None} \cup {Some(s) : s \in S}

\* Python truthiness of an Optional[str]: None and "" are falsy
bool(o) == o # None /\ Value(o) # <<>>

Min(a, b) == IF a < b THEN a ELSE b

\* str.lower over the characters used
LowerOf == [A |-> "a", B |-> "b", E |-> "e", R |-> "r"]

Lower(s) == [i \in DOMAIN s |-> IF s[i] \in DOMAIN LowerOf THEN LowerOf[s[i]] ELSE s[i]]

\* the characters of the model that are not letters are written by name:
\* NUL (0), TAB (9), LF (10), CR (13), US (31); ord of a character
ord(char) ==
    CASE char = "NUL" -> 0
      [] char = "TAB" -> 9
      [] char = "LF" -> 10
      [] char = "CR" -> 13
      [] char = "US" -> 31
      [] char = " " -> 32
      [] char = "." -> 46
      [] char = "A" -> 65
      [] char = "a" -> 97

\* str.isspace of a character
Whitespace == {" ", "TAB", "LF", "CR", "US"}

\* str.strip: leading and trailing whitespace removed
RECURSIVE Strip(_)
Strip(s) ==
    IF s = <<>> THEN s
    ELSE IF Head(s) \in Whitespace THEN Strip(Tail(s))
    ELSE IF s[Len(s)] \in Whitespace THEN Strip(SubSeq(s, 1, Len(s) - 1))
    ELSE s

\* s[:n]
SliceTo(s, n) ==
    IF n >= 0
    THEN SubSeq(s, 1, Min(n, Len(s)))
    ELSE SubSeq(s, 1, IF Len(s) + n > 0 THEN Len(s) + n ELSE 0)

\* str.partition(" "): the text before the first space and the text after it
Partition(s) ==
    IF \E i \in DOMAIN s : s[i] = " "
    THEN LET i == CHOOSE j \in DOMAIN s :
                      s[j] = " " /\ \A k \in 1..(j - 1) : s[k] # " "
         IN  [head |-> SubSeq(s, 1, i - 1), tail |-> SubSeq(s, i + 1, Len(s))]
    ELSE [head |-> s, tail |-> <<>>]

(***************************************************************************)
(* Results of a Python call: a returned value or a raised HTTPException.   *)
(***************************************************************************)
Raise(status_code, detail) ==
    [raised |-> TRUE, status_code |-> status_code, detail |-> detail]

Return(v) ==
    [raised |-> FALSE, value |-> v]

(***************************************************************************)
(* src/backend/config/settings.py                                          *)
(***************************************************************************)
is_openai_configured == bool(OPENAI_API_KEY)

\* mutant: only an absent secret counts as not configured
is_auth_configured_not_none == ACCESS_KEY # None

is_auth_configured == bool(ACCESS_KEY)

\* mutant: an empty key is not warned about
validate_configuration_none_only ==
    [openai_configured |-> is_openai_configured,
     auth_configured |-> is_auth_configured,
     warnings |->
        (IF OPENAI_API_KEY = None THEN <<"OpenAI API key not configured">> ELSE <<>>)
        \o (IF ACCESS_KEY = None THEN <<"Access key not configured">> ELSE <<>>)]

validate_configuration ==
    [openai_configured |-> is_openai_configured,
     auth_configured |-> is_auth_configured,
     warnings |->
        (IF ~is_openai_configured THEN <<"OpenAI API key not configured">> ELSE <<>>)
        \o (IF ~is_auth_configured THEN <<"Access key not configured">> ELSE <<>>)]

(***************************************************************************)
(* src/backend/services/auth_service.py                                    *)
(***************************************************************************)
\* mutant: the comparison ignores case
authenticate_user_casefold(access_key) ==
    IF ~is_auth_configured
    THEN Raise(503, "Authentication not configured. Please set ACCESS_KEY.")
    ELSE IF Lower(access_key) = Lower(Value(ACCESS_KEY))
         THEN Return([authenticated |-> TRUE,
                      message |-> "Authentication successful",
                      token |-> Some(access_key)])
         ELSE Raise(403, "Invalid access key")

\* mutant: a login is refused once an earlier call has been refused
authenticate_user_lockout(access_key) ==
    IF ~is_auth_configured
    THEN Raise(503, "Authentication not configured. Please set ACCESS_KEY.")
    ELSE IF Some(access_key) = ACCESS_KEY /\ denied = 0
         THEN Return([authenticated |-> TRUE,
                      message |-> "Authentication successful",
                      token |-> Some(access_key)])
         ELSE Raise(403, "Invalid access key")

AuthService_authenticate_user(access_key) ==
    IF ~is_auth_configured
    THEN Raise(503, "Authentication not configured. Please set ACCESS_KEY.")
    ELSE IF Some(access_key) = ACCESS_KEY
         THEN Return([authenticated |-> TRUE,
                      message |-> "Authentication successful",
                      token |-> Some(access_key)])
         ELSE Raise(403, "Invalid access key")

\* mutant: the gate locks after two refused calls
validate_token_lockout(token) ==
    IF ~is_auth_configured
    THEN FALSE
    ELSE Some(token) = ACCESS_KEY /\ denied < 2

\* mutant: an issued token is consumed by its first use
validate_token_single_use(token) ==
    IF ~is_auth_configured
    THEN FALSE
    ELSE Some(token) = ACCESS_KEY /\ uses = 0

\* mutant: the token is compared ignoring case
validate_token_casefold(token) ==
    IF ~is_auth_configured
    THEN FALSE
    ELSE Lower(token) = Lower(Value(ACCESS_KEY))

AuthService_validate_token(token) ==
    IF ~is_auth_configured
    THEN FALSE
    ELSE Some(token) = ACCESS_KEY

(***************************************************************************)
(* src/backend/middleware/auth_middleware.py                               *)
(* credentials is None (HTTPBearer found no bearer credential) or Some(c), *)
(* c being the credentials.credentials string.                            *)
(***************************************************************************)
\* security = HTTPBearer(auto_error=False): the Authorization header, None
\* when the request has none, is split at its first space into scheme and
\* credentials; the result is None unless both are non-empty and the scheme
\* is bearer in any case.  strip tells whether the framework strips the
\* credentials, which depends on its version.
get_authorization_scheme_param(authorization, strip) ==
    IF ~bool(authorization)
    THEN [scheme |-> <<>>, param |-> <<>>]
    ELSE LET parts == Partition(Value(authorization))
         IN  [scheme |-> parts.head,
              param |-> IF strip THEN Strip(parts.tail) ELSE parts.tail]

\* mutant: the scheme is not looked at
HTTPBearer_any_scheme(authorization, strip) ==
    LET parsed == get_authorization_scheme_param(authorization, strip)
    IN  IF ~(bool(authorization) /\ parsed.scheme # <<>> /\ parsed.param # <<>>)
        THEN None
        ELSE Some(parsed.param)

HTTPBearer(authorization, strip) ==
    LET parsed == get_authorization_scheme_param(authorization, strip)
    IN  IF ~(bool(authorization) /\ parsed.scheme # <<>> /\ parsed.param # <<>>)
        THEN None
        ELSE IF Lower(parsed.scheme) # <<"b", "e", "a", "r", "e", "r">>
             THEN None
             ELSE Some(parsed.param)

\* mutant: the missing-credential check comes before the not-configured check
verify_access_key_missing_first(credentials) ==
    IF credentials = None
    THEN Raise(401, "Authentication required. Please provide access key.")
    ELSE IF ~is_auth_configured
         THEN Raise(503, "Authentication not configured. Please set ACCESS_KEY.")
         ELSE IF ~AuthService_validate_token(Value(credentials))
              THEN Raise(403, "Invalid access key.")
              ELSE Return(credentials)

\* mutant: the status codes of missing and mismatched credentials are swapped
verify_access_key_swapped(credentials) ==
    IF ~is_auth_configured
    THEN Raise(503, "Authentication not configured. Please set ACCESS_KEY.")
    ELSE IF credentials = None
         THEN Raise(403, "Authentication required. Please provide access key.")
         ELSE IF ~AuthService_validate_token(Value(credentials))
              THEN Raise(401, "Invalid access key.")
              ELSE Return(credentials)

\* mutant: a request without a credential falls through without a decision
verify_access_key_silent(credentials) ==
    IF ~is_auth_configured
    THEN Raise(503, "Authentication not configured. Please set ACCESS_KEY.")
    ELSE IF credentials = None
         THEN Return(None)
         ELSE IF ~AuthService_validate_token(Value(credentials))
              THEN Raise(403, "Invalid access key.")
              ELSE Return(credentials)

verify_access_key(credentials) ==
    IF ~is_auth_configured
    THEN Raise(503, "Authentication not configured. Please set ACCESS_KEY.")
    ELSE IF credentials = None
         THEN Raise(401, "Authentication required. Please provide access key.")
         ELSE IF ~AuthService_validate_token(Value(credentials))
              THEN Raise(403, "Invalid access key.")
              ELSE Return(credentials)

\* mutant: a mismatched credential is refused as the guard refuses it
optional_auth_raising(credentials) ==
    IF credentials = None \/ ~is_auth_configured
    THEN Return(None)
    ELSE IF AuthService_validate_token(Value(credentials))
         THEN Return(credentials)
         ELSE Raise(403, "Invalid access key.")

optional_auth(credentials) ==
    IF credentials = None \/ ~is_auth_configured
    THEN Return(None)
    ELSE IF AuthService_validate_token(Value(credentials))
         THEN Return(credentials)
         ELSE Return(None)

(***************************************************************************)
(* src/backend/services/openai_service.py                                  *)
(* client is "None" or "OpenAI".  A service operation answers with the     *)
(* result of the call and the upstream calls it made, each with its API    *)
(* and its keyword arguments.  outcome is what happens inside the try      *)
(* block: Ok, or an exception raised by the upstream call ("call_raises")  *)
(* or while the answer is built from its response ("shaping_raises"), with *)
(* text the str() of that exception.  An Optional[float] temperature is    *)
(* held in tenths.                                                         *)
(***************************************************************************)
initialize_client(init_ok) ==
    IF is_openai_configured
    THEN IF init_ok THEN "OpenAI" ELSE "None"
    ELSE "None"

Ok == [kind |-> "ok", text |-> ""]

Raises(kind, text) == [kind |-> kind, text |-> text]

check_client ==
    IF client = "None"
    THEN Raise(503, "OpenAI client not available. Please configure OPENAI_API_KEY.")
    ELSE Return(None)

is_available == client # "None"

Upstream ==
    [chat |-> "chat.completions.create",
     completion |-> "completions.create",
     images |-> "images.generate",
     embeddings |-> "embeddings.create",
     models |-> "models.list"]

ProtectedOps == DOMAIN Upstream

\* a request without a JSON body, a call without keyword arguments
NoBody == [empty |-> TRUE]

\* an entry of the provider's list of models, and what the provider lists,
\* in its order, where the list does not matter
Model(id, owned_by) == [id |-> id, object |-> "model", owned_by |-> owned_by]

UpstreamModels ==
    <<Model("gpt-4", "openai"), Model("gpt-3.5-turbo", "openai"),
      Model("dall-e-3", "system")>>

\* Model.model_dump(): the dict of the entry's fields
model_dump(model) ==
    [id |-> model.id, object |-> model.object, owned_by |-> model.owned_by]

\* mutant: a call that raises is tried once more before the 500 is answered
service_method_retry(api, args, shaped, outcome) ==
    IF check_client.raised
    THEN [result |-> check_client, calls |-> <<>>]
    ELSE IF outcome.kind = "ok"
         THEN [result |-> Return(shaped), calls |-> <<[api |-> api, args |-> args]>>]
         ELSE [result |-> Raise(500, "OpenAI API error: " \o outcome.text),
               calls |-> IF outcome.kind = "call_raises"
                         THEN <<[api |-> api, args |-> args], [api |-> api, args |-> args]>>
                         ELSE <<[api |-> api, args |-> args]>>]

\* _check_client, then the one upstream call and the shaping of its response
\* inside try / except Exception as e, answered 500 with str(e) in the detail
service_method(api, args, shaped, outcome) ==
    IF check_client.raised
    THEN [result |-> check_client, calls |-> <<>>]
    ELSE IF outcome.kind = "ok"
         THEN [result |-> Return(shaped), calls |-> <<[api |-> api, args |-> args]>>]
         ELSE [result |-> Raise(500, "OpenAI API error: " \o outcome.text),
               calls |-> <<[api |-> api, args |-> args]>>]

chat_completion(request, outcome) ==
    service_method(Upstream.chat,
        [model |-> request.model,
         messages |-> [i \in 1..Len(request.messages) |->
                          [role |-> request.messages[i].role,
                           content |-> request.messages[i].content]],
         temperature |-> request.temperature,
         max_tokens |-> request.max_tokens],
        [message |-> "choices[0].message.content", model |-> request.model,
         usage |-> "usage", id |-> "id"],
        outcome)

text_completion(request, outcome) ==
    service_method(Upstream.completion,
        [model |-> request.model,
         prompt |-> request.prompt,
         temperature |-> request.temperature,
         max_tokens |-> request.max_tokens],
        [text |-> "choices[0].text", model |-> request.model,
         usage |-> "usage", id |-> "id"],
        outcome)

\* mutant: one image is asked for, whatever the request says
generate_image_single(request, outcome) ==
    service_method(Upstream.images,
        [model |-> "dall-e-3",
         prompt |-> request.prompt,
         size |-> request.size,
         quality |-> request.quality,
         n |-> Some(1)],
        [url |-> "data[0].url", prompt |-> request.prompt,
         size |-> request.size, quality |-> request.quality,
         revised_prompt |-> "data[0].revised_prompt"],
        outcome)

generate_image(request, outcome) ==
    service_method(Upstream.images,
        [model |-> "dall-e-3",
         prompt |-> request.prompt,
         size |-> request.size,
         quality |-> request.quality,
         n |-> request.n],
        [url |-> "data[0].url", prompt |-> request.prompt,
         size |-> request.size, quality |-> request.quality,
         revised_prompt |-> "data[0].revised_prompt"],
        outcome)

create_embeddings(request, outcome) ==
    service_method(Upstream.embeddings,
        [model |-> request.model, input |-> request.input],
        [embeddings |-> <<"data[0].embedding">>, model |-> request.model,
         usage |-> "usage"],
        outcome)

\* mutant: the entries are listed last to first
list_models_reversed(outcome) ==
    LET models == [i \in 1..Len(provider) |->
                      model_dump(provider[Len(provider) + 1 - i])]
    IN  service_method(Upstream.models,
            NoBody,
            [models |-> models, count |-> Len(models)],
            outcome)

\* provider is response.data, the list models.list() answers with
list_models(outcome) ==
    LET models == [i \in 1..Len(provider) |-> model_dump(provider[i])]
    IN  service_method(Upstream.models,
            NoBody,
            [models |-> models, count |-> Len(models)],
            outcome)

\* the service method each route of src/backend/routes/openai.py calls
service_call(op, request, outcome) ==
    CASE op = "chat" -> chat_completion(request, outcome)
      [] op = "completion" -> text_completion(request, outcome)
      [] op = "images" -> generate_image(request, outcome)
      [] op = "embeddings" -> create_embeddings(request, outcome)
      [] op = "models" -> list_models(outcome)

(***************************************************************************)
(* The HTTP answers of the routes.  FastAPI turns a raised HTTPException   *)
(* into its status code and a body holding its detail.  A route answers    *)
(* with the HTTP response, the value its dependency bound to the           *)
(* endpoint's token parameter (None when the endpoint has none or did not  *)
(* run) and the upstream calls made.                                       *)
(***************************************************************************)
HttpError(e) == [status |-> e.status_code, body |-> [detail |-> e.detail]]

HttpOk(body) == [status |-> 200, body |-> body]

\* mutant: the token is left out of the body and takes the model's default
auth_route_default_token(access_key) ==
    LET result == AuthService_authenticate_user(access_key)
    IN  IF result.raised
        THEN [http |-> HttpError(result), token |-> None, calls |-> <<>>]
        ELSE [http |-> HttpOk([authenticated |-> result.value.authenticated,
                               message |-> result.value.message,
                               token |-> None]),
              token |-> None, calls |-> <<>>]

\* mutant: the handler's except clause answers 500 instead of re-raising
auth_route_swallowing(access_key) ==
    LET result == AuthService_authenticate_user(access_key)
    IN  IF result.raised
        THEN [http |-> HttpError(Raise(500, "Internal server error")),
              token |-> None, calls |-> <<>>]
        ELSE [http |-> HttpOk([authenticated |-> result.value.authenticated,
                               message |-> result.value.message,
                               token |-> result.value.token]),
              token |-> None, calls |-> <<>>]

\* src/backend/routes/auth.py: authenticate
auth_route(access_key) ==
    LET result == AuthService_authenticate_user(access_key)
    IN  IF result.raised
        THEN [http |-> HttpError(result), token |-> None, calls |-> <<>>]
        ELSE [http |-> HttpOk([authenticated |-> result.value.authenticated,
                               message |-> result.value.message,
                               token |-> result.value.token]),
              token |-> None, calls |-> <<>>]

\* src/server.py: authenticate of the standalone server; its auth_key is read
\* from the same environment variable as settings.ACCESS_KEY
server_authenticate(access_key) ==
    IF ~bool(ACCESS_KEY)
    THEN [http |-> HttpError(Raise(503, "Authentication not configured. Please set ACCESS_KEY.")),
          token |-> None, calls |-> <<>>]
    ELSE IF Some(access_key) = ACCESS_KEY
         THEN [http |-> HttpOk([authenticated |-> TRUE,
                                message |-> "Authentication successful",
                                token |-> Some(access_key)]),
               token |-> None, calls |-> <<>>]
         ELSE [http |-> HttpError(Raise(403, "Invalid access key")),
               token |-> None, calls |-> <<>>]

(***************************************************************************)
(* A request in flight.  FastAPI serves a request to a route that has a    *)
(* dependency in steps: security (HTTPBearer) is awaited on the event      *)
(* loop, verify_access_key, a plain def, runs in a worker thread, and the  *)
(* endpoint, an async def, runs on the event loop, where it checks the     *)
(* client and then waits in the upstream call, which holds the event loop  *)
(* but not the worker threads; steps of other requests may fall between    *)
(* them.  A request in flight holds where it stands (pc), *)
(* what was sent (op, body, and the outcome of its upstream call), the     *)
(* credentials security returned (cred), the endpoint the router chose,   *)
(* the token the dependency bound and, once done, its response and the     *)
(* upstream calls it made.                                                 *)
(***************************************************************************)
InFlight(pc, op, cred, body, outcome) ==
    [pc |-> pc, op |-> op, cred |-> cred, body |-> body, outcome |-> outcome,
     endpoint |-> "none", token |-> None,
     http |-> [status |-> 0, body |-> [detail |-> ""]], calls |-> <<>>]

Idle == InFlight("idle", "none", None, NoBody, Ok)

\* the response is ready to be sent
Done(s, http, token, calls) ==
    [s EXCEPT !.pc = "done", !.http = http, !.token = token, !.calls = calls]

\* Depends(security): the Authorization header is parsed and the dependency
\* is given what HTTPBearer returns
Depends_security(s, strip) ==
    [s EXCEPT !.pc = "verify_access_key",
              !.cred = HTTPBearer(s.body.Authorization, strip)]

\* mutant: the service is called before the guard's refusal is answered
Depends_verify_access_key_call_first(s) ==
    LET token == verify_access_key(s.cred)
    IN  IF token.raised
        THEN Done(s, HttpError(token), None, service_call(s.op, s.body, s.outcome).calls)
        ELSE [s EXCEPT !.pc = "endpoint", !.token = token.value]

\* mutant: the availability of the client is tested before the guard runs
Depends_verify_access_key_client_first(s) ==
    LET token == verify_access_key(s.cred)
    IN  IF check_client.raised
        THEN Done(s, HttpError(check_client),
                  IF token.raised THEN None ELSE token.value, <<>>)
        ELSE IF token.raised
             THEN Done(s, HttpError(token), None, <<>>)
             ELSE [s EXCEPT !.pc = "endpoint", !.token = token.value]

\* src/backend/routes/openai.py: token: str = Depends(verify_access_key) of
\* every route; what it raises is the response, what it returns is bound to
\* token and the endpoint is run next
Depends_verify_access_key(s) ==
    LET token == verify_access_key(s.cred)
    IN  IF token.raised
        THEN Done(s, HttpError(token), None, <<>>)
        ELSE [s EXCEPT !.pc = "endpoint", !.token = token.value]

\* src/backend/routes/openai.py: the endpoint begins and calls its service
\* method, which runs _check_client and, with a client, begins the upstream
\* call; the call waits for the provider
openai_endpoint_begins(s) ==
    IF check_client.raised
    THEN Done(s, HttpError(check_client), s.token, <<>>)
    ELSE [s EXCEPT !.pc = "upstream",
                   !.calls = service_call(s.op, s.body, Ok).calls]

\* the upstream call answers or raises: the service method shapes the answer
\* or raises the 500, and the endpoint returns what it is given
openai_endpoint(s) ==
    LET served == service_call(s.op, s.body, s.outcome)
    IN  Done(s,
             IF served.result.raised THEN HttpError(served.result)
                                     ELSE HttpOk(served.result.value),
             s.token, served.calls)

\* the answer of a request to a protected route that is served alone, from
\* the credentials security returned: the dependency, then the endpoint
protected_route(op, credentials, request, outcome) ==
    LET granted == Depends_verify_access_key(
                       InFlight("verify_access_key", op, credentials, request, outcome))
        begun == IF granted.pc = "done" THEN granted ELSE openai_endpoint_begins(granted)
        done == IF begun.pc = "done" THEN begun ELSE openai_endpoint(begun)
    IN  [http |-> done.http, token |-> done.token, calls |-> done.calls]

\* settings.APP_VERSION
APP_VERSION == "1.0.0"

\* HealthResponse(...): the five fields of the model, message being the
\* f-string over the two statuses
HealthResponse(openai_status, auth_status) ==
    [status |-> "healthy",
     message |-> "Service is operational. OpenAI: " \o openai_status
                    \o ", Auth: " \o auth_status,
     openai_client |-> openai_status,
     authentication |-> auth_status,
     service_version |-> APP_VERSION]

\* mutant: the upstream status is read from the API key, not from the client
health_route_openai_from_key ==
    LET openai_status == IF is_openai_configured THEN "available" ELSE "unavailable"
        auth_status == IF is_auth_configured THEN "configured" ELSE "not configured"
    IN  [http |-> HttpOk(HealthResponse(openai_status, auth_status)),
         token |-> None, calls |-> <<>>]

\* src/backend/routes/health.py: health_check; the result of
\* validate_configuration is not used
health_route ==
    LET config_status == validate_configuration
        openai_status == IF is_available THEN "available" ELSE "unavailable"
        auth_status == IF is_auth_configured THEN "configured" ELSE "not configured"
    IN  [http |-> HttpOk(HealthResponse(openai_status, auth_status)),
         token |-> None, calls |-> <<>>]

\* mutant: the standalone guard compares before it looks for a secret, so
\* that without a secret a presented credential is answered 403
server_verify_access_key_compare_first(credentials) ==
    IF credentials # None /\ credentials # ACCESS_KEY
    THEN Raise(403, "Invalid access key.")
    ELSE IF ~bool(ACCESS_KEY)
         THEN Raise(503, "Authentication not configured. Please set ACCESS_KEY.")
         ELSE IF credentials = None
              THEN Raise(401, "Authentication required. Please provide access key.")
              ELSE Return(credentials)

\* src/server.py: verify_access_key of the standalone server
server_verify_access_key(credentials) ==
    IF ~bool(ACCESS_KEY)
    THEN Raise(503, "Authentication not configured. Please set ACCESS_KEY.")
    ELSE IF credentials = None
         THEN Raise(401, "Authentication required. Please provide access key.")
         ELSE IF credentials # ACCESS_KEY
              THEN Raise(403, "Invalid access key.")
              ELSE Return(credentials)

\* src/server.py: check_openai_client; client is created from the same
\* environment variable as the client of the service
check_openai_client ==
    IF client = "None"
    THEN Raise(503, "OpenAI client not available. Please configure OPENAI_API_KEY.")
    ELSE Return(None)

\* the body every protected endpoint of src/server.py shares:
\* check_openai_client(), then the upstream call and the shaping of its
\* response inside try / except Exception as e
server_endpoint_body(api, args, shaped, outcome) ==
    IF check_openai_client.raised
    THEN [result |-> check_openai_client, calls |-> <<>>]
    ELSE IF outcome.kind = "ok"
         THEN [result |-> Return(shaped), calls |-> <<[api |-> api, args |-> args]>>]
         ELSE [result |-> Raise(500, "OpenAI API error: " \o outcome.text),
               calls |-> <<[api |-> api, args |-> args]>>]

server_chat_completion(request, outcome) ==
    server_endpoint_body("chat.completions.create",
        [model |-> request.model,
         messages |-> [i \in 1..Len(request.messages) |->
                          [role |-> request.messages[i].role,
                           content |-> request.messages[i].content]],
         temperature |-> request.temperature,
         max_tokens |-> request.max_tokens],
        [message |-> "choices[0].message.content", model |-> request.model,
         usage |-> "usage", id |-> "id"],
        outcome)

server_text_completion(request, outcome) ==
    server_endpoint_body("completions.create",
        [model |-> request.model,
         prompt |-> request.prompt,
         temperature |-> request.temperature,
         max_tokens |-> request.max_tokens],
        [text |-> "choices[0].text", model |-> request.model,
         usage |-> "usage", id |-> "id"],
        outcome)

server_generate_image(request, outcome) ==
    server_endpoint_body("images.generate",
        [model |-> "dall-e-3",
         prompt |-> request.prompt,
         size |-> request.size,
         quality |-> request.quality,
         n |-> request.n],
        [url |-> "data[0].url", prompt |-> request.prompt,
         size |-> request.size, quality |-> request.quality,
         revised_prompt |-> "data[0].revised_prompt"],
        outcome)

server_create_embeddings(request, outcome) ==
    server_endpoint_body("embeddings.create",
        [model |-> request.model, input |-> request.input],
        [embeddings |-> <<"data[0].embedding">>, model |-> request.model,
         usage |-> "usage"],
        outcome)

server_list_models(outcome) ==
    LET models == [i \in 1..Len(provider) |-> model_dump(provider[i])]
    IN  server_endpoint_body("models.list",
            NoBody,
            [models |-> models, count |-> Len(models)],
            outcome)

\* the protected routes of src/server.py and the route of the backend each
\* one stands for
ServerRoutes ==
    [server_chat |-> "chat",
     server_completion |-> "completion",
     server_images |-> "images",
     server_embeddings |-> "embeddings",
     server_models |-> "models"]

ServerOps == DOMAIN ServerRoutes

server_endpoint(op, request, outcome) ==
    CASE op = "server_chat" -> server_chat_completion(request, outcome)
      [] op = "server_completion" -> server_text_completion(request, outcome)
      [] op = "server_images" -> server_generate_image(request, outcome)
      [] op = "server_embeddings" -> server_create_embeddings(request, outcome)
      [] op = "server_models" -> server_list_models(outcome)

\* src/server.py: token: str = Depends(verify_access_key) of every protected
\* route
server_Depends_verify_access_key(s) ==
    LET token == server_verify_access_key(s.cred)
    IN  IF token.raised
        THEN Done(s, HttpError(token), None, <<>>)
        ELSE [s EXCEPT !.pc = "endpoint", !.token = token.value]

\* src/server.py: a protected endpoint begins: check_openai_client() and,
\* with a client, the upstream call begins and waits for the provider
server_openai_endpoint_begins(s) ==
    IF check_openai_client.raised
    THEN Done(s, HttpError(check_openai_client), s.token, <<>>)
    ELSE [s EXCEPT !.pc = "upstream",
                   !.calls = server_endpoint(s.op, s.body, Ok).calls]

\* src/server.py: the upstream call answers or raises; what the endpoint
\* returns is the 200 payload, what it raises the response
server_openai_endpoint(s) ==
    LET served == server_endpoint(s.op, s.body, s.outcome)
    IN  Done(s,
             IF served.result.raised THEN HttpError(served.result)
                                     ELSE HttpOk(served.result.value),
             s.token, served.calls)

\* the answer of a request to a protected route of src/server.py that is
\* served alone: the dependency, then the endpoint
server_protected_route(op, credentials, request, outcome) ==
    LET granted == server_Depends_verify_access_key(
                       InFlight("verify_access_key", op, credentials, request, outcome))
        begun == IF granted.pc = "done" THEN granted
                 ELSE server_openai_endpoint_begins(granted)
        done == IF begun.pc = "done" THEN begun ELSE server_openai_endpoint(begun)
    IN  [http |-> done.http, token |-> done.token, calls |-> done.calls]

(***************************************************************************)
(* src/backend/utils/helpers.py                                            *)
(***************************************************************************)
\* mutant: only the null byte is removed
sanitize_string_null_only(text, max_length) ==
    LET sanitized == SelectSeq(text, LAMBDA char : char # "NUL")
        limited == IF Len(sanitized) > max_length
                   THEN SliceTo(sanitized, max_length) \o <<".", ".", ".">>
                   ELSE sanitized
    IN  Strip(limited)

\* text is a str: the isinstance branch is not taken
sanitize_string(text, max_length) ==
    LET sanitized == SelectSeq(text, LAMBDA char :
                         ord(char) >= 32 \/ char \in {"LF", "CR", "TAB"})
        limited == IF Len(sanitized) > max_length
                   THEN SliceTo(sanitized, max_length) \o <<".", ".", ".">>
                   ELSE sanitized
    IN  Strip(limited)

\* the answer of a call that is not an HTTP request: a value and no status
Returned(v) ==
    [http |-> [status |-> 0, body |-> [value |-> v]], token |-> None, calls |-> <<>>]

(***************************************************************************)
(* src/backend/main.py and the routers it includes.  A path is the         *)
(* sequence of its pieces: /auth/ is the prefix "/auth" followed by "/".   *)
(***************************************************************************)
redirect_slashes == FALSE

\* mutant: authenticate is registered under "/" only
auth_router_paths_slash_only == {<<"/">>}

\* the paths of the two decorators of authenticate
auth_router_paths == {<<"/">>, <<>>}

RouteTable ==
    {[method |-> "POST", path |-> <<"/auth">> \o path, endpoint |-> "authenticate"] :
        path \in auth_router_paths}
    \cup {[method |-> "GET", path |-> <<"/health">>, endpoint |-> "health_check"]}

\* the same path with its trailing slash removed or added
OtherSlash(path) ==
    IF path # <<>> /\ path[Len(path)] = "/"
    THEN SubSeq(path, 1, Len(path) - 1)
    ELSE path \o <<"/">>

\* the router: the endpoint of the route of that path and method, else 405
\* when the path exists under another method, else a redirect to the
\* other-slash path when redirect_slashes is on and that path exists, else 404
dispatch(method, path) ==
    IF \E r \in RouteTable : r.path = path /\ r.method = method
    THEN Return((CHOOSE r \in RouteTable : r.path = path /\ r.method = method).endpoint)
    ELSE IF \E r \in RouteTable : r.path = path
         THEN Raise(405, "Method Not Allowed")
         ELSE IF redirect_slashes /\ \E r \in RouteTable : r.path = OtherSlash(path)
              THEN Raise(307, "Temporary Redirect")
              ELSE Raise(404, "Not Found")

\* the request is routed: the endpoint of its route is run next, or the
\* router's refusal is the response
routed(s) ==
    LET route == dispatch(s.body.method, s.body.path)
    IN  IF route.raised
        THEN Done(s, HttpError(route), None, <<>>)
        ELSE [s EXCEPT !.pc = "endpoint", !.endpoint = route.value]

\* the endpoint the router chose is run with the payload of the request
routed_endpoint(s) ==
    LET served == IF s.endpoint = "authenticate"
                  THEN auth_route(s.body.access_key)
                  ELSE health_route
    IN  Done(s, served.http, served.token, served.calls)

\* an endpoint that depends on optional_auth and does nothing else
optional_route(credentials) ==
    LET token == optional_auth(credentials)
    IN  IF token.raised
        THEN [http |-> HttpError(token), token |-> None, calls |-> <<>>]
        ELSE [http |-> HttpOk([detail |-> ""]), token |-> token.value, calls |-> <<>>]

(***************************************************************************)
(* State.  ACCESS_KEY, OPENAI_API_KEY and client are set when the modules  *)
(* are imported.  req is the request not yet sent, threads the requests in *)
(* flight, last the latest call and its answer.  denied, issued, uses and  *)
(* repeats record the history of the answers for the properties about      *)
(* sequences of calls; no operation of the service reads them.             *)
(***************************************************************************)
NoRequest == [op |-> "none", cred |-> None, body |-> NoBody, outcome |-> Ok]

NoAnswer == [op |-> "none", cred |-> None, body |-> NoBody, outcome |-> Ok,
             http |-> [status |-> 0, body |-> [detail |-> ""]],
             token |-> None, calls |-> <<>>]

LoginOps == {"auth", "server_auth"}

AuthNotConfigured == "Authentication not configured. Please set ACCESS_KEY."

\* the answer carries a refusal of the gate: 503 not configured, 401 or 403
Refused(http) ==
    \/ http.status \in {401, 403}
    \/ http.status = 503 /\ http.body.detail = AuthNotConfigured

Track(op, cred, http) ==
    /\ denied' = IF Refused(http) THEN Min(denied + 1, MaxCount) ELSE denied
    /\ issued' = IF op \in LoginOps /\ http.status = 200
                 THEN issued \cup {http.body.token}
                 ELSE issued
    /\ uses' = IF op \in ProtectedOps /\ cred \in issued
               THEN Min(uses + 1, MaxCount)
               ELSE uses
    /\ repeats' = IF last.op = op /\ last.cred = cred
                  THEN Min(repeats + 1, MaxCount)
                  ELSE 0

\* the answer is received by the caller
Record(op, cred, body, outcome, served) ==
    /\ last' = [op |-> op, cred |-> cred, body |-> body, outcome |-> outcome,
                http |-> served.http, token |-> served.token, calls |-> served.calls]
    /\ Track(op, cred, served.http)

Answer(op, cred, body, outcome, served) ==
    /\ Record(op, cred, body, outcome, served)
    /\ UNCHANGED <<threads, provider>>

Threads == 1..MaxThreads

\* the step FastAPI runs first for a request: the router for a request sent
\* to a path, security for one that carries its Authorization header, the
\* dependency for one whose credentials are given as security returned them
Start(request) ==
    InFlight(IF request.op = "dispatch" THEN "route"
             ELSE IF "Authorization" \in DOMAIN request.body THEN "security"
             ELSE "verify_access_key",
             request.op, request.cred, request.body, request.outcome)

(***************************************************************************)
(* One action per operation of the service that runs in one piece, and one *)
(* per step of a request to a route.                                       *)
(***************************************************************************)
\* mutant: a refused login clears the secret
Login_clearing_key(access_key) ==
    /\ Answer("auth", Some(access_key), [access_key |-> access_key], Ok,
              auth_route(access_key))
    /\ ACCESS_KEY' = IF auth_route(access_key).http.status = 403 THEN None ELSE ACCESS_KEY
    /\ UNCHANGED <<OPENAI_API_KEY, client>>

Login(access_key) ==
    /\ Answer("auth", Some(access_key), [access_key |-> access_key], Ok,
              auth_route(access_key))
    /\ UNCHANGED config

ServerLogin(access_key) ==
    /\ Answer("server_auth", Some(access_key), [access_key |-> access_key], Ok,
              server_authenticate(access_key))
    /\ UNCHANGED config

Sanitize(text, max_length) ==
    /\ Answer("sanitize", None, [text |-> text, max_length |-> max_length], Ok,
              Returned(sanitize_string(text, max_length)))
    /\ UNCHANGED config

OptionalAuth(credentials) ==
    /\ Answer("optional_auth", credentials, NoBody, Ok, optional_route(credentials))
    /\ UNCHANGED config

Health ==
    /\ Answer("health", None, NoBody, Ok, health_route)
    /\ UNCHANGED config

\* a request is received and its first step is due
Send(t, request) ==
    /\ threads[t].pc = "idle"
    /\ threads' = [threads EXCEPT ![t] = Start(request)]
    /\ UNCHANGED <<config, last, history, provider>>

\* the router, on the event loop
Route(t) ==
    /\ threads[t].pc = "route"
    /\ threads' = [threads EXCEPT ![t] = routed(@)]
    /\ UNCHANGED <<config, req, last, history, provider>>

\* authenticate or health_check as the router chose it, on the event loop
RoutedEndpoint(t) ==
    /\ threads[t].pc = "endpoint" /\ threads[t].op = "dispatch"
    /\ threads' = [threads EXCEPT ![t] = routed_endpoint(@)]
    /\ UNCHANGED <<config, req, last, history, provider>>

\* security, on the event loop
Security(t, strip) ==
    /\ threads[t].pc = "security"
    /\ threads' = [threads EXCEPT ![t] = Depends_security(@, strip)]
    /\ UNCHANGED <<config, req, last, history, provider>>

\* verify_access_key of the backend, in a worker thread
Guard(t) ==
    /\ threads[t].pc = "verify_access_key" /\ threads[t].op \in ProtectedOps
    /\ threads' = [threads EXCEPT ![t] = Depends_verify_access_key(@)]
    /\ UNCHANGED <<config, req, last, history, provider>>

\* mutant: a granted request that finds no client tries to create it again
Endpoint_reinitialising(t) ==
    /\ threads[t].pc = "endpoint" /\ threads[t].op \in ProtectedOps
    /\ threads' = [threads EXCEPT ![t] = openai_endpoint_begins(@)]
    /\ client' = IF client = "None" THEN initialize_client(TRUE) ELSE client
    /\ UNCHANGED <<ACCESS_KEY, OPENAI_API_KEY, req, last, history, provider>>

\* the endpoint of a protected route of the backend begins, on the event
\* loop: the client is checked and the upstream call begins
Endpoint(t) ==
    /\ threads[t].pc = "endpoint" /\ threads[t].op \in ProtectedOps
    /\ threads' = [threads EXCEPT ![t] = openai_endpoint_begins(@)]
    /\ UNCHANGED <<config, req, last, history, provider>>

\* the upstream call of the backend answers or raises and the endpoint ends
UpstreamAnswers(t) ==
    /\ threads[t].pc = "upstream" /\ threads[t].op \in ProtectedOps
    /\ threads' = [threads EXCEPT ![t] = openai_endpoint(@)]
    /\ UNCHANGED <<config, req, last, history, provider>>

\* verify_access_key of src/server.py, in a worker thread
ServerGuard(t) ==
    /\ threads[t].pc = "verify_access_key" /\ threads[t].op \in ServerOps
    /\ threads' = [threads EXCEPT ![t] = server_Depends_verify_access_key(@)]
    /\ UNCHANGED <<config, req, last, history, provider>>

\* the endpoint of a protected route of src/server.py begins, on the event
\* loop: the client is checked and the upstream call begins
ServerEndpoint(t) ==
    /\ threads[t].pc = "endpoint" /\ threads[t].op \in ServerOps
    /\ threads' = [threads EXCEPT ![t] = server_openai_endpoint_begins(@)]
    /\ UNCHANGED <<config, req, last, history, provider>>

\* the upstream call of src/server.py answers or raises and the endpoint ends
ServerUpstreamAnswers(t) ==
    /\ threads[t].pc = "upstream" /\ threads[t].op \in ServerOps
    /\ threads' = [threads EXCEPT ![t] = server_openai_endpoint(@)]
    /\ UNCHANGED <<config, req, last, history, provider>>

\* the response is sent and received by the caller
Observe(t) ==
    /\ threads[t].pc = "done"
    /\ Record(threads[t].op, threads[t].cred, threads[t].body, threads[t].outcome,
              threads[t])
    /\ threads' = [threads EXCEPT ![t] = Idle]
    /\ UNCHANGED <<config, req, provider>>

StepRoute == \E t \in Threads : Route(t)

StepRoutedEndpoint == \E t \in Threads : RoutedEndpoint(t)

StepSecurity == \E t \in Threads : \E strip \in BOOLEAN : Security(t, strip)

StepGuard == \E t \in Threads : Guard(t)

StepEndpoint == \E t \in Threads : Endpoint(t)

StepUpstreamAnswers == \E t \in Threads : UpstreamAnswers(t)

StepServerGuard == \E t \in Threads : ServerGuard(t)

StepServerEndpoint == \E t \in Threads : ServerEndpoint(t)

StepServerUpstreamAnswers == \E t \in Threads : ServerUpstreamAnswers(t)

StepObserve == \E t \in Threads : Observe(t)

\* nothing is in flight
Quiet == \A t \in Threads : threads[t].pc = "idle"

\* the request waiting is sent
Accept ==
    /\ req.op \in ProtectedOps \cup ServerOps \cup {"dispatch"}
    /\ Send(1, req)
    /\ req' = NoRequest

\* the request each protected operation is sent where the body does not matter:
\* the defaults of src/backend/models/openai_models.py
DefaultBody(op) ==
    CASE op = "chat" ->
           [model |-> "gpt-3.5-turbo",
            messages |-> <<[role |-> "user", content |-> "hello"]>>,
            temperature |-> Some(7), max_tokens |-> Some(1000)]
      [] op = "completion" ->
           [model |-> "gpt-3.5-turbo-instruct", prompt |-> "hello",
            temperature |-> Some(7), max_tokens |-> Some(100)]
      [] op = "images" ->
           [prompt |-> "hello", size |-> Some("1024x1024"),
            quality |-> Some("standard"), n |-> Some(1)]
      [] op = "embeddings" ->
           [model |-> "text-embedding-ada-002", input |-> "hello"]
      [] op = "models" -> NoBody

\* what the upstream does: it answers, its call raises (with a text, or with
\* none), or the shaping of its response raises
Outcomes ==
    {Ok, Raises("call_raises", "Connection error."), Raises("call_raises", ""),
     Raises("shaping_raises", "list index out of range")}

(***************************************************************************)
(* Spec: the service answering one call after another, for a few secrets   *)
(* and the credentials that matter against them.  A call is sent when      *)
(* nothing is in flight; a request to a protected route is then served in  *)
(* its steps.                                                              *)
(***************************************************************************)
Secret == <<"a", "A">>

ScenarioSecrets == {None, Some(<<>>), Some(Secret)}

ScenarioCredentials ==
    {Secret, <<"a", "a">>, <<>>}

ScenarioOutcomes == {Ok, Raises("call_raises", "Connection error.")}

ApiKeys == {None, Some(<<>>), Some(<<"a">>)}

InitConfig(secrets) ==
    /\ ACCESS_KEY \in secrets
    /\ OPENAI_API_KEY \in ApiKeys
    /\ \E init_ok \in BOOLEAN : client = initialize_client(init_ok)

InitHistory ==
    /\ threads = [t \in Threads |-> Idle]
    /\ provider = UpstreamModels
    /\ last = NoAnswer
    /\ denied = 0
    /\ issued = {}
    /\ uses = 0
    /\ repeats = 0

Init ==
    /\ InitConfig(ScenarioSecrets)
    /\ req = NoRequest
    /\ InitHistory

CallLogin == Quiet /\ \E c \in ScenarioCredentials : Login(c) /\ UNCHANGED req

CallOptionalAuth ==
    Quiet /\ \E c \in Optional(ScenarioCredentials) : OptionalAuth(c) /\ UNCHANGED req

CallProtected ==
    /\ Quiet
    /\ \E op \in ProtectedOps, c \in Optional(ScenarioCredentials), o \in ScenarioOutcomes :
          Send(1, [op |-> op, cred |-> c, body |-> DefaultBody(op), outcome |-> o])
    /\ UNCHANGED req

CallHealth == Quiet /\ Health /\ UNCHANGED req

Next ==
    \/ CallLogin
    \/ CallOptionalAuth
    \/ CallProtected
    \/ CallHealth
    \/ StepGuard
    \/ StepEndpoint
    \/ StepUpstreamAnswers
    \/ StepObserve

Spec == Init /\ [][Next]_vars

(***************************************************************************)
(* SpecGate: one call, for every secret and every credential of at most    *)
(* MaxLen characters.                                                      *)
(***************************************************************************)
Requests ==
    {[op |-> op, cred |-> Some(s), body |-> [access_key |-> s], outcome |-> Ok] :
        op \in LoginOps, s \in Strings(MaxLen)}
    \cup [op : {"optional_auth"}, cred : Optional(Strings(MaxLen)),
          body : {NoBody}, outcome : {Ok}]
    \cup {[op |-> op, cred |-> c, body |-> DefaultBody(op), outcome |-> o] :
            op \in ProtectedOps, c \in Optional(Strings(MaxLen)), o \in Outcomes}
    \cup {[op |-> op, cred |-> c, body |-> DefaultBody(ServerRoutes[op]), outcome |-> o] :
            op \in ServerOps, c \in Optional(Strings(MaxLen)), o \in Outcomes}
    \cup [op : {"health"}, cred : {None}, body : {NoBody}, outcome : {Ok}]

InitGate ==
    /\ InitConfig(Optional(Strings(MaxLen)))
    /\ req \in Requests
    /\ InitHistory

ServeLogin == req.op = "auth" /\ Login(Value(req.cred)) /\ req' = NoRequest

ServeServerLogin ==
    req.op = "server_auth" /\ ServerLogin(Value(req.cred)) /\ req' = NoRequest

ServeOptionalAuth == req.op = "optional_auth" /\ OptionalAuth(req.cred) /\ req' = NoRequest

ServeHealth == req.op = "health" /\ Health /\ req' = NoRequest

NextGate ==
    \/ ServeLogin
    \/ ServeServerLogin
    \/ ServeOptionalAuth
    \/ ServeHealth
    \/ Accept
    \/ StepGuard
    \/ StepEndpoint
    \/ StepUpstreamAnswers
    \/ StepServerGuard
    \/ StepServerEndpoint
    \/ StepServerUpstreamAnswers
    \/ StepObserve

SpecGate == InitGate /\ [][NextGate]_vars

(***************************************************************************)
(* SpecConc: requests in flight at the same time, their steps interleaved: *)
(* GET /models with its Authorization header, and POST /chat of the        *)
(* backend and GET /models of src/server.py with the credentials security  *)
(* returned.  verify_access_key of the backend is taken one read at a      *)
(* time: is_auth_configured, the test of credentials, the                  *)
(* is_auth_configured of validate_token, and the comparison with           *)
(* ACCESS_KEY.                                                             *)
(***************************************************************************)
ConcHeaders ==
    {None,
     Some(<<"B", "e", "a", "r", "e", "r", " ">> \o Secret),
     Some(<<"B", "e", "a", "r", "e", "r", " ", "a", "a">>),
     Some(<<"B", "a", "s", "i", "c", " ">> \o Secret)}

ConcCredentials == {None, Some(Secret), Some(<<"a", "a">>)}

ConcRequests ==
    {[op |-> "models", cred |-> None, body |-> [Authorization |-> h], outcome |-> Ok] :
        h \in ConcHeaders}
    \cup {[op |-> "chat", cred |-> c, body |-> DefaultBody("chat"), outcome |-> Ok] :
            c \in ConcCredentials}
    \cup {[op |-> "server_models", cred |-> c, body |-> NoBody, outcome |-> Ok] :
            c \in ConcCredentials}

\* mutant: the credentials under evaluation are kept in one place shared by
\* all requests, the latest evaluation in flight overwriting it
credentials_shared(t) ==
    LET inflight == {u \in Threads : threads[u].pc \notin {"idle", "security"}}
    IN  threads[CHOOSE u \in inflight : \A v \in inflight : v <= u].cred

\* the credentials argument of the evaluation t runs
credentials_of(t) == threads[t].cred

\* the evaluation raised or returned: what Depends makes of it
Finish(t, result) ==
    threads' = [threads EXCEPT ![t] =
                   IF result.raised
                   THEN Done(@, HttpError(result), None, <<>>)
                   ELSE [@ EXCEPT !.pc = "endpoint", !.token = result.value]]

Goto(t, pc) == threads' = [threads EXCEPT ![t].pc = pc]

GuardCheckConfigured(t) ==
    /\ threads[t].pc = "verify_access_key" /\ threads[t].op \in ProtectedOps
    /\ IF ~is_auth_configured
       THEN Finish(t, Raise(503, "Authentication not configured. Please set ACCESS_KEY."))
       ELSE Goto(t, "check_credentials")
    /\ UNCHANGED <<config, req, last, history, provider>>

GuardCheckCredentials(t) ==
    /\ threads[t].pc = "check_credentials"
    /\ IF credentials_of(t) = None
       THEN Finish(t, Raise(401, "Authentication required. Please provide access key."))
       ELSE Goto(t, "validate_token")
    /\ UNCHANGED <<config, req, last, history, provider>>

ValidateTokenConfigured(t) ==
    /\ threads[t].pc = "validate_token"
    /\ IF ~is_auth_configured
       THEN Finish(t, Raise(403, "Invalid access key."))
       ELSE Goto(t, "compare")
    /\ UNCHANGED <<config, req, last, history, provider>>

ValidateTokenCompare(t) ==
    /\ threads[t].pc = "compare"
    /\ IF credentials_of(t) = ACCESS_KEY
       THEN Finish(t, Return(credentials_of(t)))
       ELSE Finish(t, Raise(403, "Invalid access key."))
    /\ UNCHANGED <<config, req, last, history, provider>>

\* the response is sent
Respond(t) ==
    /\ threads[t].pc = "done"
    /\ threads' = [threads EXCEPT ![t] = Idle]
    /\ UNCHANGED <<config, req, last, history, provider>>

ConcArrive ==
    \E t \in Threads : \E request \in ConcRequests :
        Send(t, request) /\ UNCHANGED req

ConcCheckConfigured == \E t \in Threads : GuardCheckConfigured(t)

ConcCheckCredentials == \E t \in Threads : GuardCheckCredentials(t)

ConcValidateConfigured == \E t \in Threads : ValidateTokenConfigured(t)

ConcCompare == \E t \in Threads : ValidateTokenCompare(t)

ConcRespond == \E t \in Threads : Respond(t)

NextConc ==
    \/ ConcArrive
    \/ StepSecurity
    \/ ConcCheckConfigured
    \/ ConcCheckCredentials
    \/ ConcValidateConfigured
    \/ ConcCompare
    \/ StepEndpoint
    \/ StepUpstreamAnswers
    \/ StepServerGuard
    \/ StepServerEndpoint
    \/ StepServerUpstreamAnswers
    \/ ConcRespond

SpecConc == Init /\ [][NextConc]_vars

(***************************************************************************)
(* SpecForward: one request to a protected operation, its body drawn from  *)
(* the values the request models of src/backend/models/openai_models.py    *)
(* admit, served with the secret configured.                               *)
(***************************************************************************)
ChatMessages == {[role |-> "system", content |-> "be brief"],
                 [role |-> "user", content |-> "hello"]}

MessageLists ==
    UNION {[1..n -> ChatMessages] : n \in 0..MaxMessages}

Temperatures == {None, Some(0), Some(7)}

TokenLimits == {None, Some(1), Some(1000)}

Prompts == {"hello", "a cat"}

Bodies(op) ==
    CASE op = "chat" ->
           [model : {"gpt-3.5-turbo", "gpt-4"}, messages : MessageLists,
            temperature : Temperatures, max_tokens : TokenLimits]
      [] op = "completion" ->
           [model : {"gpt-3.5-turbo-instruct", "davinci-002"}, prompt : Prompts,
            temperature : Temperatures, max_tokens : TokenLimits]
      [] op = "images" ->
           [prompt : Prompts,
            size : {None, Some("1024x1024"), Some("512x512")},
            quality : {None, Some("standard"), Some("hd")},
            n : {None, Some(1), Some(4)}]
      [] op = "embeddings" ->
           [model : {"text-embedding-ada-002", "text-embedding-3-small"},
            input : Prompts]
      [] op = "models" -> {NoBody}

ForwardRequests ==
    {[op |-> op, cred |-> c, body |-> b, outcome |-> o] :
        op \in ProtectedOps, c \in {None, Some(Secret)},
        b \in UNION {Bodies(p) : p \in ProtectedOps}, o \in Outcomes}

InitForward ==
    /\ InitConfig({Some(Secret)})
    /\ req \in {r \in ForwardRequests : r.body \in Bodies(r.op)}
    /\ InitHistory

NextForward == Accept \/ StepGuard \/ StepEndpoint \/ StepUpstreamAnswers
    \/ StepObserve

SpecForward == InitForward /\ [][NextForward]_vars

(***************************************************************************)
(* SpecHeader: one GET /models whose Authorization header is absent or is  *)
(* a scheme, a separator and a value, served against every secret.         *)
(***************************************************************************)
Schemes == {<<"B", "e", "a", "r", "e", "r">>, <<"b", "e", "a", "r", "e", "r">>,
            <<"B", "E", "A", "R", "E", "R">>, <<"B", "a", "s", "i", "c">>, <<>>}

Separators == {<<>>, <<" ">>, <<" ", " ">>}

Headers ==
    {None} \cup {Some(scheme \o sep \o c) :
                    scheme \in Schemes, sep \in Separators, c \in Strings(MaxLen)}

InitHeader ==
    /\ InitConfig(Optional(Strings(MaxLen)))
    /\ req \in {[op |-> "models", cred |-> None, body |-> [Authorization |-> h],
                 outcome |-> Ok] : h \in Headers}
    /\ InitHistory

NextHeader == Accept \/ StepSecurity \/ StepGuard \/ StepEndpoint \/ StepUpstreamAnswers
    \/ StepObserve

SpecHeader == InitHeader /\ [][NextHeader]_vars

(***************************************************************************)
(* SpecRoute: one request carrying a login payload, sent with a method to  *)
(* a path and routed by the application.                                   *)
(***************************************************************************)
Paths == {<<"/auth">>, <<"/auth", "/">>, <<"/health">>, <<"/health", "/">>, <<"/login">>}

Methods == {"GET", "POST"}

InitRoute ==
    /\ InitConfig(Optional(Strings(MaxLen)))
    /\ req \in {[op |-> "dispatch", cred |-> Some(s),
                  body |-> [method |-> m, path |-> path, access_key |-> s],
                  outcome |-> Ok] :
                    m \in Methods, path \in Paths, s \in Strings(MaxLen)}
    /\ InitHistory

NextRoute == Accept \/ StepRoute \/ StepRoutedEndpoint \/ StepObserve

SpecRoute == InitRoute /\ [][NextRoute]_vars

(***************************************************************************)
(* SpecModels: one GET /models, the provider answering with any list of up *)
(* to MaxModels entries, repeated entries included.                        *)
(***************************************************************************)
ModelEntries == {Model("gpt-4", "openai"), Model("dall-e-3", "system"),
                 Model("ft:gpt-4", "user")}

ModelLists == UNION {[1..n -> ModelEntries] : n \in 0..MaxModels}

InitModels ==
    /\ InitConfig({Some(Secret)})
    /\ req \in [op : {"models"}, cred : {None, Some(Secret)}, body : {NoBody},
                 outcome : Outcomes]
    /\ provider \in ModelLists
    /\ threads = [t \in Threads |-> Idle]
    /\ last = NoAnswer
    /\ denied = 0
    /\ issued = {}
    /\ uses = 0
    /\ repeats = 0

NextModels == Accept \/ StepGuard \/ StepEndpoint \/ StepUpstreamAnswers
    \/ StepObserve

SpecModels == InitModels /\ [][NextModels]_vars

(***************************************************************************)
(* SpecSanitize: one call of sanitize_string on a text of up to MaxText    *)
(* characters with a max_length of -1 to MaxLimit.                         *)
(***************************************************************************)
TextAlphabet == {"a", ".", " ", "LF", "TAB", "NUL", "US"}

Texts == UNION {[1..n -> TextAlphabet] : n \in 0..MaxText}

InitSanitize ==
    /\ InitConfig({None})
    /\ req \in [op : {"sanitize"}, cred : {None},
                 body : [text : Texts, max_length : (0 - 1)..MaxLimit],
                 outcome : {Ok}]
    /\ InitHistory

ServeSanitize ==
    /\ req.op = "sanitize"
    /\ Sanitize(req.body.text, req.body.max_length)
    /\ req' = NoRequest

NextSanitize == ServeSanitize

SpecSanitize == InitSanitize /\ [][NextSanitize]_vars

(***************************************************************************)
(* Properties.                                                             *)
(***************************************************************************)
\* a secret is configured: present and not empty
Configured == ACCESS_KEY # None /\ ACCESS_KEY # Some(<<>>)

GuardedOps == ProtectedOps

\* C1: with a non-empty secret S, a login with credential C answers 200 iff
\* C equals S exactly, and answers 403 for every other C.
C1_AuthenticateIffEqual ==
    (last.op \in LoginOps /\ Configured) =>
        /\ last.http.status = 200 <=> last.cred = ACCESS_KEY
        /\ last.cred # ACCESS_KEY => last.http.status = 403

\* a credential that differs from the secret only by case was refused
C1_Witness ==
    /\ last.op = "auth" /\ Configured
    /\ last.cred # ACCESS_KEY
    /\ Lower(Value(last.cred)) = Lower(Value(ACCESS_KEY))
    /\ last.http.status = 403

\* C2: with no secret configured, login and guard answer 503 "not configured"
\* for every input, the absent credential included, and nothing goes upstream.
C2_UnavailableFirst ==
    (~Configured /\ last.op \in LoginOps \cup GuardedOps) =>
        /\ last.http.status = 503
        /\ last.http.body.detail = AuthNotConfigured
        /\ last.calls = <<>>

\* the guard answered 503 to a request without credential
C2_Witness ==
    /\ ~Configured /\ last.op \in GuardedOps
    /\ last.cred = None
    /\ last.http.status = 503

\* C3: with a secret S, the guard answers 401 to no credential, 403 to a
\* credential other than S, and lets S through handing the endpoint the
\* presented credential.
C3_GuardDecision ==
    (Configured /\ last.op \in GuardedOps) =>
        /\ last.cred = None => last.http.status = 401
        /\ (last.cred # None /\ last.cred # ACCESS_KEY) => last.http.status = 403
        /\ last.cred = ACCESS_KEY => (~Refused(last.http) /\ last.token = last.cred)

\* the guard let the secret through and the endpoint answered
C3_Witness ==
    /\ Configured /\ last.op \in GuardedOps
    /\ last.cred = ACCESS_KEY
    /\ last.token = last.cred
    /\ last.http.status = 200

\* C4: optional_auth never fails; it hands over the credential exactly when
\* the guard would let it through, and None in every other case.
C4_OptionalNeverFails ==
    last.op = "optional_auth" =>
        /\ last.http.status = 200
        /\ last.token = IF Configured /\ last.cred = ACCESS_KEY THEN last.cred ELSE None
        /\ last.token # None <=> ~verify_access_key(last.cred).raised

\* a mismatched credential came back as None, without a failure
C4_Witness ==
    /\ last.op = "optional_auth" /\ Configured
    /\ last.cred # None /\ last.cred # ACCESS_KEY
    /\ last.http.status = 200
    /\ last.token = None

\* C9: a login answered 200 carries authenticated = true and a token equal
\* to the submitted credential and to the secret.
C9_TokenEchoed ==
    (last.op \in LoginOps /\ last.http.status = 200) =>
        /\ last.http.body.authenticated = TRUE
        /\ last.http.body.token = last.cred
        /\ last.http.body.token = ACCESS_KEY

\* a two-character secret was echoed back
C9_Witness ==
    /\ last.op = "auth" /\ last.http.status = 200
    /\ last.http.body.token # None
    /\ Len(Value(last.http.body.token)) = 2

\* C5: a protected operation calls the upstream provider only when a secret
\* is configured and the presented credential equals it; a request the gate
\* refuses (503, 401, 403) makes no upstream call.
C5_NoUpstreamWhenRefused ==
    last.op \in GuardedOps =>
        /\ last.calls # <<>> => (Configured /\ last.cred = ACCESS_KEY)
        /\ Refused(last.http) => last.calls = <<>>

\* a wrong credential was refused while the upstream client was available
C5_Witness ==
    /\ last.op \in GuardedOps /\ Configured /\ client = "OpenAI"
    /\ last.cred # None /\ last.cred # ACCESS_KEY
    /\ last.http.status = 403
    /\ last.calls = <<>>

\* C6: no operation changes the secret, the provider key or the client.
C6_ConfigurationFrozen ==
    [][/\ ACCESS_KEY' = ACCESS_KEY
       /\ OPENAI_API_KEY' = OPENAI_API_KEY
       /\ client' = client]_vars

\* refusals, a login and a use of its token have all been served
C6_Witness ==
    /\ Configured
    /\ denied >= 2 /\ issued # {} /\ uses >= 1
    /\ last.op = "health"

\* the calls refused before the latest one
PriorDenied == denied - (IF Refused(last.http) THEN 1 ELSE 0)

\* C7: after refused calls, the correct secret is still let through by login
\* and guard, and a wrong credential is still answered 403.
C7_NoLockout ==
    (PriorDenied >= 1 /\ Configured /\ last.op \in LoginOps \cup GuardedOps) =>
        /\ (last.op \in LoginOps /\ last.cred = ACCESS_KEY) => last.http.status = 200
        /\ (last.op \in GuardedOps /\ last.cred = ACCESS_KEY) => ~Refused(last.http)
        /\ (last.cred # None /\ last.cred # ACCESS_KEY) => last.http.status = 403

\* the guard let the secret through after two refusals
C7_Witness ==
    /\ denied >= 2 /\ Configured
    /\ last.op \in GuardedOps /\ last.cred = ACCESS_KEY
    /\ last.http.status = 200

\* the decision of the gate in an answer: 200 for granted
Observed(a) ==
    IF a.op \in LoginOps \/ Refused(a.http) THEN a.http.status ELSE 200

\* the decision the code gives a call in the current state; the guard of
\* every protected operation is the one dependency verify_access_key
Decision(op, cred) ==
    IF op \in LoginOps
    THEN auth_route(Value(cred)).http.status
    ELSE LET token == verify_access_key(cred)
         IN  IF token.raised THEN token.status_code ELSE 200

DecidedCalls ==
    ({"auth"} \X {Some(c) : c \in ScenarioCredentials})
    \cup ({"guard"} \X Optional(ScenarioCredentials))

\* C8: an identical call gets the same decision however often it is repeated
\* and whatever is served in between: the latest answer is the decision the
\* same call gets now, no step changes the decision of any call, and a call
\* that repeats the one before it is answered alike.
C8_Idempotent ==
    /\ [](last.op \in {"auth"} \cup GuardedOps =>
            Observed(last) = Decision(last.op, last.cred))
    /\ [][\A call \in DecidedCalls :
            Decision(call[1], call[2])' = Decision(call[1], call[2])]_vars
    /\ [][(last.op \in {"auth"} \cup GuardedOps
           /\ last'.op = last.op /\ last'.cred = last.cred)
          => Observed(last') = Observed(last)]_vars

\* the same refused call was served three times in a row
C8_Witness ==
    /\ repeats >= 2
    /\ last.op \in {"auth"} \cup GuardedOps
    /\ Refused(last.http)

\* C10: the token of a successful login, presented to the guard of a
\* protected operation at any later time and any number of times, is let
\* through.
C10_TokenReplay ==
    (last.op \in GuardedOps /\ last.cred \in issued) =>
        /\ ~Refused(last.http)
        /\ last.token = last.cred

\* the token was let through again after earlier uses and refusals
C10_Witness ==
    /\ last.op \in GuardedOps /\ last.cred \in issued
    /\ uses >= 2 /\ denied >= 1
    /\ last.http.status = 200

\* the kind of the gate's decision, read from the answer of a login or of a
\* protected operation
KindServiceUnavailable ==
    /\ last.http.status = 503
    /\ last.http.body.detail = AuthNotConfigured
    /\ last.token = None

KindUnauthorized == last.http.status = 401 /\ last.token = None

KindForbidden == last.http.status = 403 /\ last.token = None

KindSuccess ==
    IF last.op \in LoginOps
    THEN last.http.status = 200 /\ last.http.body.authenticated
    ELSE last.token # None

KindsHolding ==
    {k \in {"ServiceUnavailable", "Unauthorized", "Forbidden", "Success"} :
        CASE k = "ServiceUnavailable" -> KindServiceUnavailable
          [] k = "Unauthorized" -> KindUnauthorized
          [] k = "Forbidden" -> KindForbidden
          [] k = "Success" -> KindSuccess}

\* C11: every login and every guarded call is served (no request is left
\* without an enabled step), and its answer carries exactly one of the four
\* kinds ServiceUnavailable, Unauthorized, Forbidden, Success.
C11_ExactlyOneKind ==
    /\ req.op \in LoginOps \cup GuardedOps => ENABLED NextGate
    /\ (\E t \in Threads : threads[t].op \in GuardedOps) => ENABLED NextGate
    /\ last.op \in LoginOps \cup GuardedOps => Cardinality(KindsHolding) = 1

\* each of the four kinds is reached; the state named is a guarded call
\* without a credential answered Unauthorized
C11_Witness ==
    /\ last.op \in GuardedOps /\ last.cred = None
    /\ KindsHolding = {"Unauthorized"}

\* C12: the login endpoint answers 503 exactly when no secret is configured,
\* 403 exactly when a secret is configured and the credential differs, 200
\* exactly when they are equal, never 401; what authenticate_user raises
\* reaches the caller with its status and detail unchanged.
C12_LoginStatus ==
    last.op = "auth" =>
        /\ last.http.status = 503 <=> ~Configured
        /\ last.http.status = 403 <=> (Configured /\ last.cred # ACCESS_KEY)
        /\ last.http.status = 200 <=> (Configured /\ last.cred = ACCESS_KEY)
        /\ last.http.status # 401
        /\ LET result == AuthService_authenticate_user(Value(last.cred))
           IN  result.raised =>
                   /\ last.http.status = result.status_code
                   /\ last.http.body.detail = result.detail

\* a login with a wrong credential was answered 403 by the route
C12_Witness ==
    /\ last.op = "auth" /\ Configured /\ last.cred # ACCESS_KEY
    /\ last.http.status = 403 /\ last.http.body.detail = "Invalid access key"

\* C13: whatever requests are in flight at the same time and however their
\* steps interleave, a request the guard has let through holds the token the
\* guard returns for its own credentials alone, and a request that is done
\* holds the answer it is given when it is served alone against the
\* configured secret.
C13_DecidedAlone ==
    \A t \in Threads :
        LET s == threads[t]
            alone == IF s.op \in ServerOps
                     THEN server_protected_route(s.op, s.cred, s.body, s.outcome)
                     ELSE protected_route(s.op, s.cred, s.body, s.outcome)
        IN  /\ s.pc \in {"endpoint", "upstream"} =>
                  /\ ~verify_access_key(s.cred).raised
                  /\ s.token = verify_access_key(s.cred).value
            /\ s.pc = "done" =>
                  /\ s.http = alone.http
                  /\ s.token = alone.token
                  /\ s.calls = alone.calls

\* a request was refused 403 by its comparison while another one, let
\* through with the secret, was waiting for its upstream call to answer
C13_Witness ==
    \E t, u \in Threads :
        /\ t # u
        /\ threads[t].pc = "done" /\ threads[t].http.status = 403
        /\ threads[t].cred # None
        /\ threads[u].pc = "upstream" /\ threads[u].cred = ACCESS_KEY
        /\ Len(threads[u].calls) = 1

\* C14: an empty secret is served exactly as an absent one: login and guard
\* answer 503 not configured, the optional guard returns None; and an empty
\* credential is never granted, whatever the secret.
C14_EmptySecretIsAbsent ==
    /\ ACCESS_KEY \in {None, Some(<<>>)} =>
        /\ last.op \in LoginOps \cup GuardedOps =>
              /\ last.http.status = 503
              /\ last.http.body.detail = AuthNotConfigured
              /\ last.token = None
        /\ last.op = "optional_auth" => last.token = None
    /\ last.cred = Some(<<>>) =>
        /\ last.op \in GuardedOps \cup {"optional_auth"} => last.token = None
        /\ last.op \in LoginOps => last.http.status # 200

\* the secret is the empty string and a guarded call presented the empty
\* credential, equal to it: answered 503, nothing granted
C14_Witness ==
    /\ ACCESS_KEY = Some(<<>>)
    /\ last.op \in GuardedOps /\ last.cred = Some(<<>>)
    /\ last.http.status = 503 /\ last.token = None

\* C15: on a protected operation the status names the kind of the access
\* decision: 503 only without a secret, 401 only without a credential, 403
\* only for a credential that does not match, and a granted caller never
\* receives 503.
C15_StatusNamesKind ==
    last.op \in GuardedOps =>
        /\ last.http.status = 503 => ~Configured
        /\ last.http.status = 401 => last.cred = None
        /\ last.http.status = 403 => (last.cred # None /\ last.cred # ACCESS_KEY)
        /\ last.token # None => last.http.status # 503

\* C16: health is answered without a credential, always 200 with status
\* "healthy"; authentication is "configured" exactly when the secret is
\* non-empty, that is exactly when a login is not answered 503, and
\* openai_client is "available" exactly when the client was initialised.
C16_HealthReports ==
    last.op = "health" =>
        /\ last.cred = None
        /\ last.http.status = 200
        /\ last.http.body.status = "healthy"
        /\ last.http.body.authentication \in {"configured", "not configured"}
        /\ last.http.body.authentication = "configured" <=> Configured
        /\ \A c \in Strings(1) :
              last.http.body.authentication = "configured"
                  <=> auth_route(c).http.status # 503
        /\ last.http.body.openai_client \in {"available", "unavailable"}
        /\ last.http.body.openai_client = "available" <=> client = "OpenAI"

\* health answered "healthy" with no secret configured and an API key whose
\* client failed to initialise
C16_Witness ==
    /\ last.op = "health" /\ last.http.body.status = "healthy"
    /\ ACCESS_KEY = None /\ last.http.body.authentication = "not configured"
    /\ bool(OPENAI_API_KEY) /\ client = "None"
    /\ last.http.body.openai_client = "unavailable"

\* C17: a request to a protected operation that carries no Authorization
\* header is answered with the operation's success payload whenever the
\* upstream provider is available (count and models for /models, message
\* for /chat).
C17_ServedWithoutHeader ==
    (last.op \in GuardedOps /\ last.cred = None
     /\ client = "OpenAI" /\ last.outcome.kind = "ok") =>
        /\ last.http.status = 200
        /\ last.op = "models" => {"count", "models"} \subseteq DOMAIN last.http.body
        /\ last.op = "chat" => "message" \in DOMAIN last.http.body

ClientNotAvailable == "OpenAI client not available. Please configure OPENAI_API_KEY."

\* C18: the access decision comes before the availability of the upstream
\* client: with no client a missing credential is still answered 401, a
\* wrong one 403 and a missing secret 503 not configured; the 503 "client
\* not available" is answered only to a granted request.
C18_DecisionBeforeAvailability ==
    last.op \in GuardedOps =>
        /\ (client = "None" /\ ~Configured) =>
              last.http.status = 503 /\ last.http.body.detail = AuthNotConfigured
        /\ (client = "None" /\ Configured /\ last.cred = None) =>
              last.http.status = 401
        /\ (client = "None" /\ Configured /\ last.cred # None /\ last.cred # ACCESS_KEY) =>
              last.http.status = 403
        /\ (last.http.status = 503 /\ last.http.body.detail = ClientNotAvailable) =>
              /\ Configured /\ last.cred = ACCESS_KEY
              /\ last.token = last.cred
              /\ client = "None"

\* without a client, a wrong credential was answered 403
C18_Witness ==
    /\ last.op \in GuardedOps /\ client = "None" /\ Configured
    /\ last.cred # None /\ last.cred # ACCESS_KEY
    /\ last.http.status = 403

\* C19: a granted request makes no upstream call when the client is not
\* initialised (503) and exactly one call, to the API of its operation,
\* otherwise; when the call or the shaping of its response raises, the
\* answer is 500 and there is still one call only.
C19_AtMostOneCall ==
    (last.op \in GuardedOps /\ last.token # None) =>
        /\ Len(last.calls) <= 1
        /\ client = "None" =>
              /\ last.calls = <<>>
              /\ last.http.status = 503 /\ last.http.body.detail = ClientNotAvailable
        /\ client = "OpenAI" =>
              /\ Len(last.calls) = 1
              /\ last.calls[1].api = Upstream[last.op]
              /\ last.outcome.kind = "ok" => last.http.status = 200
              /\ last.outcome.kind \in {"call_raises", "shaping_raises"} =>
                    /\ last.http.status = 500
                    /\ last.http.body.detail = "OpenAI API error: " \o last.outcome.text

\* a granted request whose upstream call raised was answered 500 after one
\* call
C19_Witness ==
    /\ last.op \in GuardedOps /\ last.token # None
    /\ client = "OpenAI" /\ last.outcome.kind = "call_raises"
    /\ Len(last.calls) = 1 /\ last.http.status = 500

\* the fields of the request, as the claim lists them for each operation
RequestFields(op, request) ==
    CASE op = "chat" ->
           [model |-> request.model, messages |-> request.messages,
            temperature |-> request.temperature, max_tokens |-> request.max_tokens]
      [] op = "completion" ->
           [model |-> request.model, prompt |-> request.prompt,
            temperature |-> request.temperature, max_tokens |-> request.max_tokens]
      [] op = "embeddings" ->
           [model |-> request.model, input |-> request.input]
      [] op = "images" ->
           [prompt |-> request.prompt, size |-> request.size,
            quality |-> request.quality, n |-> request.n]
      [] op = "models" -> NoBody

\* C20 as stated: the parameters of the upstream call of a granted request
\* are exactly the request's fields, unchanged, nothing dropped, reordered,
\* substituted or added.
C20_ForwardedExactly ==
    (last.op \in GuardedOps /\ last.token # None /\ last.calls # <<>>) =>
        last.calls[1].args = RequestFields(last.op, last.body)

\* C20 amended: chat, completion and embeddings pass exactly the request's
\* fields unchanged; an image request passes its prompt, size, quality and n
\* unchanged together with the model "dall-e-3", which is fixed by the
\* service and is not a field of the request.
C20_ForwardedWithFixedImageModel ==
    (last.op \in GuardedOps /\ last.token # None /\ last.calls # <<>>) =>
        IF last.op = "images"
        THEN last.calls[1].args =
                 [model |-> "dall-e-3", prompt |-> last.body.prompt,
                  size |-> last.body.size, quality |-> last.body.quality,
                  n |-> last.body.n]
        ELSE last.calls[1].args = RequestFields(last.op, last.body)

\* a granted image request asking for four images reached the upstream call
C20_Witness ==
    /\ last.op = "images" /\ last.token # None
    /\ last.body.n = Some(4) /\ last.body.size = None
    /\ Len(last.calls) = 1
    /\ last.calls[1].args.n = Some(4)
    /\ last.calls[1].args.model = "dall-e-3"

\* C21: login and guard agree on every credential: the decision observed on
\* a login or on a guarded call that presents C is a grant iff
\* validate_token(C) is true, iff authenticate_user(C) returns, iff
\* verify_access_key(C) returns.
C21_LoginAndGuardAgree ==
    (last.op \in LoginOps \cup GuardedOps /\ last.cred # None) =>
        LET C == Value(last.cred)
            granted == IF last.op \in LoginOps
                       THEN last.http.status = 200
                       ELSE last.token # None
        IN  /\ granted <=> AuthService_validate_token(C)
            /\ granted <=> ~AuthService_authenticate_user(C).raised
            /\ granted <=> ~verify_access_key(Some(C)).raised

\* a guarded call presented a credential that differs from the secret by
\* case only and was refused, as the login refuses it
C21_Witness ==
    /\ last.op \in GuardedOps /\ Configured
    /\ last.cred # None /\ last.cred # ACCESS_KEY
    /\ Lower(Value(last.cred)) = Lower(Value(ACCESS_KEY))
    /\ last.http.status = 403
    /\ AuthService_authenticate_user(Value(last.cred)).raised

\* C22: the standalone server and the modular backend implement the same
\* gate: for every secret and every credential, absent or present, the two
\* guards raise or return the same thing and the two login handlers give the
\* same answer, and that is the decision observed on either server; a
\* request to a protected route of the standalone server is answered as the
\* backend answers it.
C22_ServersAgree ==
    /\ last.op \in LoginOps =>
          /\ auth_route(Value(last.cred)).http = server_authenticate(Value(last.cred)).http
          /\ last.http = auth_route(Value(last.cred)).http
    /\ last.op \in GuardedOps \cup ServerOps =>
          /\ verify_access_key(last.cred) = server_verify_access_key(last.cred)
          /\ server_verify_access_key(last.cred).raised =>
                /\ last.http.status = server_verify_access_key(last.cred).status_code
                /\ last.http.body.detail = server_verify_access_key(last.cred).detail
          /\ ~server_verify_access_key(last.cred).raised <=> last.token # None
    /\ last.op \in ServerOps =>
          LET backend == protected_route(ServerRoutes[last.op], last.cred,
                                         last.body, last.outcome)
          IN  /\ last.http = backend.http
              /\ last.token = backend.token
              /\ last.calls = backend.calls

\* the standalone guard answered 503 to a presented credential because the
\* secret is the empty string
C22_Witness ==
    /\ last.op \in ServerOps /\ ACCESS_KEY = Some(<<>>)
    /\ last.cred # None
    /\ last.http.status = 503

\* the header is Bearer, in any case, one space and a non-empty credential
BearerForm(authorization) ==
    /\ authorization # None
    /\ LET v == Value(authorization)
       IN  /\ Len(v) > 7
           /\ Lower(SubSeq(v, 1, 6)) = <<"b", "e", "a", "r", "e", "r">>
           /\ v[7] = " "

\* C23: with a secret configured, a request whose Authorization header is
\* not Bearer followed by a non-empty credential reaches the guard without
\* credentials and is answered 401: never 403, never granted, whatever the
\* header carries.
C23_NonBearerIsUnauthorized ==
    (last.op = "models" /\ "Authorization" \in DOMAIN last.body
     /\ Configured /\ ~BearerForm(last.body.Authorization)) =>
        /\ last.cred = None
        /\ last.http.status = 401
        /\ last.token = None
        /\ last.calls = <<>>

\* the header was Basic followed by the secret itself: answered 401
C23_Witness ==
    /\ last.op = "models" /\ "Authorization" \in DOMAIN last.body
    /\ Configured
    /\ last.body.Authorization =
           Some(<<"B", "a", "s", "i", "c", " ">> \o Value(ACCESS_KEY))
    /\ last.http.status = 401

\* C24: the client is what the one initialisation at construction left (it
\* exists only if the provider key is configured), no operation changes it
\* or is_available, and while it is missing every granted request to a
\* protected operation is answered 503 without an upstream call.
C24_AvailabilityFixedAtStartup ==
    /\ [](client = "OpenAI" => is_openai_configured)
    /\ [][client' = client /\ is_available' = is_available]_vars
    /\ []((last.op \in GuardedOps /\ last.token # None /\ client = "None") =>
            /\ last.http.status = 503
            /\ last.http.body.detail = ClientNotAvailable
            /\ last.calls = <<>>)

\* the provider key is set but the client failed to initialise: a granted
\* request, not the first one, is answered 503
C24_Witness ==
    /\ bool(OPENAI_API_KEY) /\ client = "None"
    /\ last.op \in GuardedOps /\ last.token # None
    /\ uses >= 2
    /\ last.http.status = 503

\* the strings of a sequence
Range(seq) == {seq[i] : i \in DOMAIN seq}

\* C25: validate_configuration reports the two is_*_configured flags, warns
\* "Access key not configured" exactly when the secret is absent or empty and
\* "OpenAI API key not configured" exactly when the provider key is absent or
\* empty, and warns of nothing exactly when both are configured.
C25_ValidateConfiguration ==
    last.op = "health" =>
        /\ validate_configuration.auth_configured = bool(ACCESS_KEY)
        /\ validate_configuration.openai_configured = bool(OPENAI_API_KEY)
        /\ "Access key not configured" \in Range(validate_configuration.warnings)
              <=> ACCESS_KEY \in {None, Some(<<>>)}
        /\ "OpenAI API key not configured" \in Range(validate_configuration.warnings)
              <=> OPENAI_API_KEY \in {None, Some(<<>>)}
        /\ validate_configuration.warnings = <<>>
              <=> (Configured /\ OPENAI_API_KEY \notin {None, Some(<<>>)})
        /\ Range(validate_configuration.warnings) \subseteq
              {"Access key not configured", "OpenAI API key not configured"}

\* health was served with an empty secret and an absent provider key: two
\* warnings
C25_Witness ==
    /\ last.op = "health"
    /\ ACCESS_KEY = Some(<<>>) /\ OPENAI_API_KEY = None
    /\ Len(validate_configuration.warnings) = 2

\* C26: a login posted to /auth and one posted to /auth/ both reach
\* authenticate: each is answered with the status and body authenticate
\* gives that payload under that configuration, never with a redirect.
C26_BothAuthPaths ==
    (last.op = "dispatch" /\ last.body.method = "POST"
     /\ last.body.path \in {<<"/auth">>, <<"/auth", "/">>}) =>
        /\ last.http = auth_route(last.body.access_key).http
        /\ last.http.status \in {200, 403, 503}
        /\ last.http.status \notin {307, 308}

\* a login posted to /auth, without the trailing slash, was granted
C26_Witness ==
    /\ last.op = "dispatch" /\ last.body.method = "POST"
    /\ last.body.path = <<"/auth">>
    /\ last.http.status = 200 /\ last.http.body.authenticated

\* C27: in every successful list_models response, count is the number of
\* entries of models and the entries are the provider's entries in the
\* provider's order, none added, dropped or duplicated.
C27_ModelsCounted ==
    (last.op = "models" /\ last.http.status = 200) =>
        /\ last.http.body.count = Len(last.http.body.models)
        /\ Len(last.http.body.models) = Len(provider)
        /\ \A i \in 1..Len(provider) : last.http.body.models[i] = provider[i]

\* two different entries were listed in the provider's order
C27_Witness ==
    /\ last.op = "models" /\ last.http.status = 200
    /\ Len(provider) = 2 /\ provider[1] # provider[2]
    /\ last.http.body.count = 2
    /\ last.http.body.models[1] = provider[1]

\* C28: for every text and every max_length >= 0 the result of
\* sanitize_string is at most max_length characters long.
C28_AtMostMaxLength ==
    (last.op = "sanitize" /\ last.body.max_length >= 0) =>
        Len(last.http.body.value) <= last.body.max_length

\* a is a subsequence of b: its characters appear in b in the same order
RECURSIVE IsSubsequence(_, _)
IsSubsequence(a, b) ==
    IF a = <<>> THEN TRUE
    ELSE IF b = <<>> THEN FALSE
    ELSE IF Head(a) = Head(b) THEN IsSubsequence(Tail(a), Tail(b))
    ELSE IsSubsequence(a, Tail(b))

\* code below 32 and not newline, carriage return or tab
Forbidden(char) == ord(char) < 32 /\ char \notin {"LF", "CR", "TAB"}

\* C29: the result of sanitize_string holds no character of code below 32
\* other than newline, carriage return and tab, and the characters that
\* remain of the text (the result without the ellipsis a truncation appends)
\* are in the order they have in the text.
C29_ControlsRemovedInOrder ==
    last.op = "sanitize" =>
        LET result == last.http.body.value
            text == last.body.text
            allowed == Cardinality({i \in DOMAIN text : ~Forbidden(text[i])})
            remaining == IF allowed > last.body.max_length
                         THEN SubSeq(result, 1, Len(result) - 3)
                         ELSE result
        IN  /\ \A i \in DOMAIN result : ~Forbidden(result[i])
            /\ IsSubsequence(remaining, text)
            /\ allowed > last.body.max_length =>
                  /\ Len(result) >= 3
                  /\ SubSeq(result, Len(result) - 2, Len(result)) = <<".", ".", ".">>

\* a control character between two kept characters was removed and nothing
\* was truncated
C29_Witness ==
    /\ last.op = "sanitize"
    /\ Len(last.body.text) = 3 /\ Forbidden(last.body.text[2])
    /\ last.body.text[1] = "a" /\ last.body.text[3] = "."
    /\ last.http.body.value = <<"a", ".">>

====
